---- MODULE Spec2Model ----
(***************************************************************************)
(* A model of the command-line parameter provider of ts-command-line       *)
(* (libraries/ts-command-line/src/CommandLineParameterProvider.ts) and of  *)
(* the rush-pnpm launcher (libraries/rush-lib/src/cli/                     *)
(* RushPnpmCommandLine.ts).                                                *)
(*                                                                         *)
(* JavaScript values are modelled as strings.  The string Undefined stands *)
(* for the JavaScript value undefined; it is different from every string   *)
(* a caller supplies in this model.  A property that a definition object   *)
(* may lack altogether (options) is a field that the record may lack.      *)
(***************************************************************************)
EXTENDS Integers, Sequences, FiniteSets, TLC

VARIABLES
  provider,     \* the fields of one CommandLineParameterProvider instance
  _keyCounter,  \* the static CommandLineParameterProvider._keyCounter
  outcome,      \* the last operation called on the provider and how it ended
  declared,     \* history: the definitions whose declaration returned normally,
                \* each with the position of its handle in _parameters
  allValid,     \* history: every declaration called so far was valid, returned
                \* normally, and had a long name and an explicit key that no
                \* earlier call had
  resolved,     \* history: _processParsedData has run on the provider
  generated,    \* history: the keys the default of _getKey's key parameter
                \* has produced in this process, in the order produced
  trial,        \* a set of definitions and a command line, and what a fresh
                \* provider makes of them in every declaration order
  rushPnpm      \* one call of RushPnpmCommandLine.launch: where it is, the
                \* process exit code, and what it did

vars == <<provider, _keyCounter, outcome, declared, allValid, resolved,
          generated, trial, rushPnpm>>

----------------------------------------------------------------------------
(* Bounds *)

\* declarations are attempted while the parameter list is shorter than this
MaxParams == 2

\* keys that other provider instances of the process generated beforehand
MaxPriorKeys == 1

\* other provider instances generate keys while the static counter is below this
MaxKeys == 3

\* the rush-pnpm command line has at most this many words
MaxArgs == 3

----------------------------------------------------------------------------
(* JavaScript values *)

Undefined == "undefined"

\* JavaScript truthiness of a string-or-undefined value
Truthy(v) == v # Undefined /\ v # ""

\* Array.prototype.indexOf: the 0-based index of the first match, or -1
indexOf(arr, v) ==
  IF \E i \in 1..Len(arr) : arr[i] = v
  THEN (CHOOSE i \in 1..Len(arr) : arr[i] = v /\ \A j \in 1..(i - 1) : arr[j] # v) - 1
  ELSE -1

\* Map.prototype.get on a map kept as a function
MapGet(map, k) == IF k \in DOMAIN map THEN map[k] ELSE Undefined

\* Map.prototype.set on a map kept as a function
MapSet(map, k, v) == (k :> v) @@ map

----------------------------------------------------------------------------
(* The inputs callers supply *)

Kinds == {"flag", "string", "stringList", "integer", "option"}

LongNames == {"", "--a", "--b"}

\* the short alias that goes with a long name: --a has one, the others none
ShortNameOf(longName) == IF longName = "--a" THEN "-v" ELSE Undefined

ExplicitKeys == {"key_1"}

OptionLists == {<< >>, <<"low", "high">>}

\* the default values a definition of the kind can carry
DefaultsOf(kind) ==
  CASE kind = "flag"       -> {Undefined, "true"}
    [] kind = "string"     -> {Undefined, "d"}
    [] kind = "stringList" -> {Undefined, "d1,d2"}
    [] kind = "integer"    -> {Undefined, "0"}
    [] kind = "option"     -> {Undefined, "low"}

\* The fields of a definition object, as a tuple: kind, long name, key,
\* required, default value and options; options is << >> when the object has
\* no options property and <<list>> when it has one.
NoOptions == << >>

\* The definitions declared in the declaration phase: every long name with
\* and without an explicit key; for the option kind also every shape of
\* options and defaultValue.
DeclareDefinitions(kind) ==
  LET named == { <<kind, l, k, FALSE, Undefined,
                   IF kind = "option" THEN << <<"low", "high">> >> ELSE NoOptions>> :
                   l \in LongNames, k \in ExplicitKeys \cup {Undefined} }
      shaped == { <<kind, l, Undefined, FALSE, d, o>> :
                   l \in LongNames \ {""}, d \in {Undefined, "", "low", "medium"},
                   o \in {NoOptions} \cup { <<list>> : list \in OptionLists } }
  IN IF kind # "option" THEN named ELSE named \cup shaped

\* The definitions declared before a resolution: valid ones, with every
\* combination of required and defaultValue.
ResolveDefinitions(kind) ==
  { <<kind, l, Undefined, r, d,
      IF kind = "option" THEN << <<"low", "high">> >> ELSE NoOptions>> :
      l \in LongNames \ {""}, r \in BOOLEAN, d \in DefaultsOf(kind) }

\* the definition object with the fields of the tuple
Definition(fields) ==
  LET base == [kind               |-> fields[1],
               parameterLongName  |-> fields[2],
               parameterShortName |-> ShortNameOf(fields[2]),
               description        |-> "help",
               key                |-> fields[3],
               required           |-> fields[4],
               defaultValue       |-> fields[5]]
  IN IF fields[6] = NoOptions THEN base
     ELSE [kind               |-> fields[1],
           parameterLongName  |-> fields[2],
           parameterShortName |-> ShortNameOf(fields[2]),
           description        |-> "help",
           key                |-> fields[3],
           required           |-> fields[4],
           defaultValue       |-> fields[5],
           options            |-> fields[6][1]]

----------------------------------------------------------------------------
(* CommandLineParameter: the handle of one declared parameter *)

\* new CommandLineParameter(key, converter); no define* method passes a converter
NewCommandLineParameter(key) == [_key |-> key, value |-> Undefined]

\* CommandLineParameter._setValue(data): the value becomes the raw entry of
\* the handle's key, undefined when the mapping has no such entry
_setValue(parameter, data) ==
  [parameter EXCEPT !.value = MapGet(data, parameter._key)]

----------------------------------------------------------------------------
(* argparse.ArgumentParser, the tokenizer: the switches registered so far *)

\* ArgumentParser.addArgument(names, options): throws for a name that is not
\* an option string and for a name that an earlier switch already has
addArgument(parser, names, options) ==
  LET invalid  == \E i \in 1..Len(names) : names[i] = ""
      conflict == \E r \in parser : \E i \in 1..Len(names) :
                    \E j \in 1..Len(r.names) : names[i] = r.names[j]
  IN IF invalid \/ conflict
     THEN [thrown |-> "TokenizerError", parser |-> parser]
     ELSE [thrown |-> "none",
           parser |-> parser \cup {[names |-> names, options |-> options]}]

----------------------------------------------------------------------------
(* CommandLineParameterProvider *)

\* constructor
NewProvider ==
  [_parameters        |-> << >>,
   _parameterMetadata |-> << >>,
   _keys              |-> << >>,
   _argumentParser    |-> {}]

\* Map.set of _parameterMetadata, a map kept in insertion order
MetadataSet(metadata, longName, entry) ==
  LET e == [longName |-> longName] @@ entry
  IN IF \E i \in 1..Len(metadata) : metadata[i].longName = longName
     THEN [i \in 1..Len(metadata) |->
             IF metadata[i].longName = longName THEN e ELSE metadata[i]]
     ELSE Append(metadata, e)

\* _getKey that advances the counter only when it returns normally
_getKey_CountsOnSuccess(self, counter, parameterLongName, keyArg) ==
  LET key         == IF keyArg = Undefined
                     THEN "key_" \o ToString(counter) ELSE keyArg
      counter2    == IF keyArg = Undefined THEN counter + 1 ELSE counter
      made        == IF keyArg = Undefined THEN <<key>> ELSE << >>
      existingKey == MapGet(self._keys, key)
  IN IF Truthy(existingKey)
     THEN [thrown |-> "DuplicateKey", self |-> self, counter |-> counter,
           key |-> key, generated |-> made]
     ELSE [thrown |-> "none",
           self |-> [self EXCEPT !._keys = MapSet(@, key, parameterLongName)],
           counter |-> counter2, key |-> key, generated |-> made]

\* _getKey that records the key itself as the owner of the key
_getKey_RegistersKey(self, counter, parameterLongName, keyArg) ==
  LET key         == IF keyArg = Undefined
                     THEN "key_" \o ToString(counter) ELSE keyArg
      counter2    == IF keyArg = Undefined THEN counter + 1 ELSE counter
      made        == IF keyArg = Undefined THEN <<key>> ELSE << >>
      existingKey == MapGet(self._keys, key)
  IN IF Truthy(existingKey)
     THEN [thrown |-> "DuplicateKey", self |-> self, counter |-> counter2,
           key |-> key, generated |-> made]
     ELSE [thrown |-> "none",
           self |-> [self EXCEPT !._keys = MapSet(@, key, key)],
           counter |-> counter2, key |-> key, generated |-> made]

\* _getKey that records the key before it looks for an existing owner
_getKey_RegisterFirst(self, counter, parameterLongName, keyArg) ==
  LET key         == IF keyArg = Undefined
                     THEN "key_" \o ToString(counter) ELSE keyArg
      counter2    == IF keyArg = Undefined THEN counter + 1 ELSE counter
      made        == IF keyArg = Undefined THEN <<key>> ELSE << >>
      existingKey == MapGet(self._keys, key)
      self1       == [self EXCEPT !._keys = MapSet(@, key, parameterLongName)]
  IN [thrown |-> IF Truthy(existingKey) THEN "DuplicateKey" ELSE "none",
      self |-> self1, counter |-> counter2, key |-> key,
      generated |-> made]

\* _getKey(parameterLongName, key = 'key_' + (_keyCounter++).toString())
_getKey(self, counter, parameterLongName, keyArg) ==
  LET key         == IF keyArg = Undefined
                     THEN "key_" \o ToString(counter) ELSE keyArg
      counter2    == IF keyArg = Undefined THEN counter + 1 ELSE counter
      made        == IF keyArg = Undefined THEN <<key>> ELSE << >>
      existingKey == MapGet(self._keys, key)
  IN IF Truthy(existingKey)
     THEN [thrown |-> "DuplicateKey", self |-> self, counter |-> counter2,
           key |-> key, generated |-> made]
     ELSE [thrown |-> "none",
           self |-> [self EXCEPT !._keys = MapSet(@, key, parameterLongName)],
           counter |-> counter2, key |-> key, generated |-> made]

\* _createParameter(definition, argparseOptions, key)
_createParameter(self, counter, definition, argparseOptions, keyArg) ==
  LET names == (IF Truthy(definition.parameterShortName)
                THEN <<definition.parameterShortName>> ELSE << >>)
               \o <<definition.parameterLongName>>
      k     == _getKey(self, counter, definition.parameterLongName, keyArg)
      result == NewCommandLineParameter(k.key)
      self1 == [k.self EXCEPT !._parameters = Append(@, result)]
      baseArgparseOptions ==
        argparseOptions @@ [help |-> definition.description, dest |-> result._key]
      a     == addArgument(self1._argumentParser, names, baseArgparseOptions)
      self2 == [self1 EXCEPT !._argumentParser = a.parser]
      self3 == [self2 EXCEPT !._parameterMetadata =
                 MetadataSet(@, definition.parameterLongName,
                   [required     |-> definition.required,
                    parameter    |-> Len(self1._parameters),
                    defaultValue |-> definition.defaultValue])]
  IN IF k.thrown # "none"
     THEN [thrown |-> k.thrown, self |-> k.self, counter |-> k.counter,
           generated |-> k.generated]
     ELSE IF a.thrown # "none"
     THEN [thrown |-> a.thrown, self |-> self2, counter |-> k.counter,
           generated |-> k.generated]
     ELSE [thrown |-> "none", self |-> self3, counter |-> k.counter,
           generated |-> k.generated]

\* a defineFlagParameter that registers the flag without the storeTrue action
defineFlagParameter_NoAction(self, counter, definition) ==
  _createParameter(self, counter, definition, << >>, Undefined)

\* defineFlagParameter(definition)
defineFlagParameter(self, counter, definition) ==
  _createParameter(self, counter, definition, [action |-> "storeTrue"], Undefined)

\* defineStringParameter(definition)
defineStringParameter(self, counter, definition) ==
  _createParameter(self, counter, definition, << >>, definition.key)

\* defineStringListParameter(definition)
defineStringListParameter(self, counter, definition) ==
  _createParameter(self, counter, definition, [action |-> "append"], definition.key)

\* defineIntegerParameter(definition)
defineIntegerParameter(self, counter, definition) ==
  _createParameter(self, counter, definition, [type |-> "int"], definition.key)

\* defineOptionParameter(definition)
defineOptionParameter(self, counter, definition) ==
  IF "options" \notin DOMAIN definition
  THEN [thrown |-> "InvalidDefinition", self |-> self, counter |-> counter,
        generated |-> << >>]
  ELSE IF Truthy(definition.defaultValue)
          /\ indexOf(definition.options, definition.defaultValue) = -1
  THEN [thrown |-> "InvalidDefinition", self |-> self, counter |-> counter,
        generated |-> << >>]
  ELSE _createParameter(self, counter, definition,
         [choices |-> definition.options, defaultValue |-> definition.defaultValue],
         Undefined)

\* _processParsedData, the first loop: fill in the values for the parameters
ValueFill(self, data) ==
  [self EXCEPT !._parameters =
     [i \in 1..Len(@) |-> _setValue(@[i], data)]]

\* a default fill that appends the default to a value that is already set
RECURSIVE DefaultFillFrom_Appends(_, _)
DefaultFillFrom_Appends(self, n) ==
  IF n > Len(self._parameterMetadata) THEN self
  ELSE LET parameterMetadata == self._parameterMetadata[n]
           parameter == self._parameters[parameterMetadata.parameter]
       IN IF parameterMetadata.defaultValue # Undefined
          THEN DefaultFillFrom_Appends(
                 [self EXCEPT !._parameters[parameterMetadata.parameter].value =
                    IF parameter.value = Undefined
                    THEN parameterMetadata.defaultValue
                    ELSE parameter.value \o "," \o parameterMetadata.defaultValue],
                 n + 1)
          ELSE DefaultFillFrom_Appends(self, n + 1)

\* a default fill that does not look at the value the parameter already has
RECURSIVE DefaultFillFrom_Overwrite(_, _)
DefaultFillFrom_Overwrite(self, n) ==
  IF n > Len(self._parameterMetadata) THEN self
  ELSE LET parameterMetadata == self._parameterMetadata[n]
           parameter == self._parameters[parameterMetadata.parameter]
       IN IF parameterMetadata.defaultValue # Undefined
          THEN DefaultFillFrom_Overwrite(
                 [self EXCEPT !._parameters[parameterMetadata.parameter] =
                    _setValue(parameter,
                      (parameter._key :> parameterMetadata.defaultValue)
                        @@ [action |-> ""])],
                 n + 1)
          ELSE DefaultFillFrom_Overwrite(self, n + 1)

\* _processParsedData, the forEach over the metadata from entry n on
RECURSIVE DefaultFillFrom(_, _)
DefaultFillFrom(self, n) ==
  IF n > Len(self._parameterMetadata) THEN self
  ELSE LET parameterMetadata == self._parameterMetadata[n]
           parameter == self._parameters[parameterMetadata.parameter]
       IN IF parameter.value = Undefined /\ parameterMetadata.defaultValue # Undefined
          THEN DefaultFillFrom(
                 [self EXCEPT !._parameters[parameterMetadata.parameter] =
                    _setValue(parameter,
                      (parameter._key :> parameterMetadata.defaultValue)
                        @@ [action |-> ""])],
                 n + 1)
          ELSE DefaultFillFrom(self, n + 1)

DefaultFill(self) == DefaultFillFrom(self, 1)

\* a _processParsedData that empties the metadata map it has consumed
_processParsedData_ConsumesMetadata(self, data) ==
  [DefaultFill(ValueFill(self, data)) EXCEPT !._parameterMetadata = << >>]

\* a _processParsedData without the default fill
_processParsedData_ValueFillOnly(self, data) == ValueFill(self, data)

\* _processParsedData(data)
_processParsedData(self, data) == DefaultFill(ValueFill(self, data))

\* a scan that passes over the required parameters that have a default
RECURSIVE MissingFrom_SkipsDefaulted(_, _)
MissingFrom_SkipsDefaulted(self, n) ==
  IF n > Len(self._parameterMetadata) THEN << >>
  ELSE LET parameterMetadata == self._parameterMetadata[n]
           parameter == self._parameters[parameterMetadata.parameter]
       IN (IF /\ parameter.value = Undefined
              /\ parameterMetadata.required
              /\ parameterMetadata.defaultValue = Undefined
           THEN <<parameterMetadata.longName>> ELSE << >>)
          \o MissingFrom_SkipsDefaulted(self, n + 1)

\* validateParameters(): the long names pushed to missingParameterLongNames
RECURSIVE MissingFrom(_, _)
MissingFrom(self, n) ==
  IF n > Len(self._parameterMetadata) THEN << >>
  ELSE LET parameterMetadata == self._parameterMetadata[n]
           parameter == self._parameters[parameterMetadata.parameter]
       IN (IF parameter.value = Undefined /\ parameterMetadata.required
           THEN <<parameterMetadata.longName>> ELSE << >>)
          \o MissingFrom(self, n + 1)

\* a validateParameters that reports the first missing parameter only
validateParameters_FirstOnly(self) ==
  LET missingParameterLongNames == MissingFrom(self, 1)
  IN IF Len(missingParameterLongNames) > 0
     THEN [thrown |-> "MissingRequired",
           missing |-> <<Head(missingParameterLongNames)>>]
     ELSE [thrown |-> "none", missing |-> << >>]

\* validateParameters()
validateParameters(self) ==
  LET missingParameterLongNames == MissingFrom(self, 1)
  IN IF Len(missingParameterLongNames) > 0
     THEN [thrown |-> "MissingRequired", missing |-> missingParameterLongNames]
     ELSE [thrown |-> "none", missing |-> << >>]

----------------------------------------------------------------------------
(* The raw mappings the tokenizer hands to _processParsedData *)

\* the raw values the switches registered for a key can produce
RawValues(self, key) ==
  LET regs == {r \in self._argumentParser : r.options.dest = key}
      of(r) == IF "choices" \in DOMAIN r.options
                 THEN {r.options.choices[i] : i \in 1..Len(r.options.choices)}
               ELSE IF "type" \in DOMAIN r.options THEN {"7"}
               ELSE IF "action" \in DOMAIN r.options
                 THEN (IF r.options.action = "storeTrue" THEN {"true"} ELSE {"x,y"})
               ELSE {"x"}
  IN IF regs = {} THEN {"x"} ELSE UNION {of(r) : r \in regs}

\* ICommandLineParserData: entries for some of the keys of the handles
ParserData(self) ==
  LET keys == {self._parameters[i]._key : i \in 1..Len(self._parameters)}
      all  == UNION {RawValues(self, k) : k \in keys}
  IN UNION { {f \in [S -> all] : \A k \in S : f[k] \in RawValues(self, k)} :
             S \in SUBSET keys }

----------------------------------------------------------------------------
(* The state machine: one provider, called in any order *)

NoDefinition == [kind |-> "none"]

\* spawnSync's status when the child ended without an exit code; exit codes
\* are not negative
Null == -1

\* launch has not been called: the process has the exit code it starts with
NotLaunched ==
  [pc |-> "not called", exitCode |-> 0, thrown |-> "none",
   argv |-> << >>, pnpmArgs |-> << >>, spawned |-> FALSE, environmentMap |-> << >>,
   result |-> [error |-> Undefined, status |-> Null], messages |-> << >>]

\* no trial is under way
NoTrial == [definitions |-> << >>, supplied |-> {}, ran |-> FALSE, runs |-> {}]

\* a definition that the declaration methods are meant to accept
ValidDefinition(d) ==
  /\ d.parameterLongName # ""
  /\ d.kind = "option" =>
       /\ "options" \in DOMAIN d
       /\ Len(d.options) > 0
       /\ d.defaultValue = Undefined
            \/ \E i \in 1..Len(d.options) : d.options[i] = d.defaultValue

\* d has a long name and an explicit key that no declared definition has
Fresh(d) ==
  \A i \in 1..Len(declared) :
    /\ declared[i].definition.parameterLongName # d.parameterLongName
    /\ d.key # Undefined => declared[i].definition.key # d.key

Init ==
  /\ provider = NewProvider
  /\ _keyCounter \in 0..MaxPriorKeys
  /\ outcome = [op |-> "constructor", thrown |-> "none",
                definition |-> NoDefinition, data |-> << >>, missing |-> << >>]
  /\ declared = << >>
  /\ allValid = TRUE
  /\ resolved = FALSE
  /\ generated = [n \in 1.._keyCounter |-> "key_" \o ToString(n - 1)]
  /\ trial = NoTrial
  /\ rushPnpm = NotLaunched

\* one call of a define* method, with its result r
Declare(op, definition, r) ==
  /\ provider' = r.self
  /\ _keyCounter' = r.counter
  /\ outcome' = [op |-> op, thrown |-> r.thrown, definition |-> definition,
                 data |-> << >>, missing |-> << >>]
  /\ declared' = IF r.thrown = "none"
                 THEN Append(declared, [definition |-> definition,
                                        parameter  |-> Len(r.self._parameters)])
                 ELSE declared
  /\ allValid' = (allValid /\ outcome.thrown = "none"
                  /\ ValidDefinition(definition) /\ Fresh(definition))
  /\ generated' = generated \o r.generated
  /\ UNCHANGED <<resolved, trial, rushPnpm>>

DefineFlag(definitions) ==
  /\ Len(provider._parameters) < MaxParams
  /\ \E fields \in definitions :
       LET d == Definition(fields)
       IN Declare("defineFlagParameter", d, defineFlagParameter(provider, _keyCounter, d))

DefineString(definitions) ==
  /\ Len(provider._parameters) < MaxParams
  /\ \E fields \in definitions :
       LET d == Definition(fields)
       IN Declare("defineStringParameter", d,
                  defineStringParameter(provider, _keyCounter, d))

DefineStringList(definitions) ==
  /\ Len(provider._parameters) < MaxParams
  /\ \E fields \in definitions :
       LET d == Definition(fields)
       IN Declare("defineStringListParameter", d,
                  defineStringListParameter(provider, _keyCounter, d))

DefineInteger(definitions) ==
  /\ Len(provider._parameters) < MaxParams
  /\ \E fields \in definitions :
       LET d == Definition(fields)
       IN Declare("defineIntegerParameter", d,
                  defineIntegerParameter(provider, _keyCounter, d))

DefineOption(definitions) ==
  /\ Len(provider._parameters) < MaxParams
  /\ \E fields \in definitions :
       LET d == Definition(fields)
       IN Declare("defineOptionParameter", d,
                  defineOptionParameter(provider, _keyCounter, d))

ProcessParsedData ==
  \E data \in ParserData(provider) :
    /\ provider' = _processParsedData(provider, data)
    /\ outcome' = [op |-> "_processParsedData", thrown |-> "none",
                   definition |-> NoDefinition, data |-> data, missing |-> << >>]
    /\ resolved' = TRUE
    /\ UNCHANGED <<_keyCounter, declared, allValid, generated, trial, rushPnpm>>

\* a validateParameters that fills in the defaults before it looks
ValidateParameters_FillsDefaults ==
  LET filled == DefaultFill(provider)
      r == validateParameters(filled)
  IN /\ provider' = filled
     /\ outcome' = [op |-> "validateParameters", thrown |-> r.thrown,
                    definition |-> NoDefinition, data |-> << >>, missing |-> r.missing]
     /\ UNCHANGED <<_keyCounter, declared, allValid, resolved, generated, trial,
                    rushPnpm>>

ValidateParameters ==
  LET r == validateParameters(provider)
  IN /\ outcome' = [op |-> "validateParameters", thrown |-> r.thrown,
                    definition |-> NoDefinition, data |-> << >>, missing |-> r.missing]
     /\ UNCHANGED <<provider, _keyCounter, declared, allValid, resolved, generated,
                    trial, rushPnpm>>

\* another provider instance of the process declares a parameter without an
\* explicit key: its _getKey advances the static counter
OtherProviderDefines ==
  /\ _keyCounter < MaxKeys
  /\ LET k == _getKey(NewProvider, _keyCounter, "--other", Undefined)
     IN /\ _keyCounter' = k.counter
        /\ generated' = generated \o k.generated
  /\ UNCHANGED <<provider, outcome, declared, allValid, resolved, trial, rushPnpm>>

\* the declaration phase: the calls made from onDefineParameters
Next ==
  \/ DefineFlag(DeclareDefinitions("flag"))
  \/ DefineString(DeclareDefinitions("string"))
  \/ DefineStringList(DeclareDefinitions("stringList"))
  \/ DefineInteger(DeclareDefinitions("integer"))
  \/ DefineOption(DeclareDefinitions("option"))

Spec == Init /\ [][Next]_vars

\* declaration and resolution, called in any order
NextResolve ==
  \/ DefineFlag(ResolveDefinitions("flag"))
  \/ DefineString(ResolveDefinitions("string"))
  \/ DefineStringList(ResolveDefinitions("stringList"))
  \/ DefineInteger(ResolveDefinitions("integer"))
  \/ DefineOption(ResolveDefinitions("option"))
  \/ ProcessParsedData
  \/ ValidateParameters

SpecResolve == Init /\ [][NextResolve]_vars

\* the declaration phase in a process where other provider instances declare
\* parameters too
NextShared ==
  \/ Next
  \/ OtherProviderDefines

SpecShared == Init /\ [][NextShared]_vars

----------------------------------------------------------------------------
(* The whole lifecycle of a fresh provider, in every declaration order *)

\* the define* method for the kind of the definition
define(self, counter, d) ==
  CASE d.kind = "flag"       -> defineFlagParameter(self, counter, d)
    [] d.kind = "string"     -> defineStringParameter(self, counter, d)
    [] d.kind = "stringList" -> defineStringListParameter(self, counter, d)
    [] d.kind = "integer"    -> defineIntegerParameter(self, counter, d)
    [] d.kind = "option"     -> defineOptionParameter(self, counter, d)

\* the declarations from the n-th on, made one after the other by a caller
\* that goes on to the next declaration when one throws; Declared is the rest
\* of them after the n-th has ended as r
RECURSIVE DeclareFrom(_, _, _, _), Declared(_, _, _)
DeclareFrom(self, counter, definitions, n) ==
  IF n > Len(definitions)
  THEN [self |-> self, counter |-> counter, thrown |-> << >>]
  ELSE Declared(define(self, counter, definitions[n]), definitions, n)

Declared(r, definitions, n) ==
  [DeclareFrom(r.self, r.counter, definitions, n + 1)
     EXCEPT !.thrown = <<r.thrown>> \o @]

\* the text the command line carries for a switch with these tokenizer hints
SuppliedValue(options) ==
  IF "choices" \in DOMAIN options THEN options.choices[1]
  ELSE IF "type" \in DOMAIN options THEN "7"
  ELSE IF "action" \in DOMAIN options
    THEN (IF options.action = "storeTrue" THEN "true" ELSE "x,y")
  ELSE "Alice"

\* ArgumentParser.parseArgs on a command line that supplies the switches with
\* the long names in supplied: an entry under its dest for every switch
\* supplied, false for a "stores true on presence" switch that is not, and no
\* entry otherwise; a long name that no switch has is rejected
parseArgs(parser, supplied) ==
  LET longName(r) == r.names[Len(r.names)]
      storesTrue(r) == "action" \in DOMAIN r.options /\ r.options.action = "storeTrue"
      present == {r \in parser : longName(r) \in supplied \/ storesTrue(r)}
      switch(k) == CHOOSE r \in present : r.options.dest = k
  IN IF \E l \in supplied : \A r \in parser : longName(r) # l
     THEN [thrown |-> "TokenizerError", data |-> << >>]
     ELSE [thrown |-> "none",
           data |-> [k \in {r.options.dest : r \in present} |->
                      IF longName(switch(k)) \in supplied
                      THEN SuppliedValue(switch(k).options) ELSE "false"]]

\* the value of the handle the metadata map has for the long name
ValueOf(self, longName) ==
  IF \E n \in 1..Len(self._parameterMetadata) :
       self._parameterMetadata[n].longName = longName
  THEN LET n == CHOOSE n \in 1..Len(self._parameterMetadata) :
                  self._parameterMetadata[n].longName = longName
       IN self._parameters[self._parameterMetadata[n].parameter].value
  ELSE "no parameter"

\* what a caller can observe of a lifecycle: how the declarations, the
\* parsing and the validation ended, and the value for each long name
Observed(definitions, declaration, parsed, self, validation) ==
  [declared |-> {definitions[i].parameterLongName :
                   i \in {j \in 1..Len(definitions) : declaration.thrown[j] = "none"}},
   parsed   |-> parsed.thrown,
   values   |-> [l \in {definitions[i].parameterLongName : i \in 1..Len(definitions)}
                   |-> ValueOf(self, l)],
   thrown   |-> validation.thrown,
   missing  |-> {validation.missing[i] : i \in 1..Len(validation.missing)}]

\* validateParameters on the provider after _processParsedData
Validated(definitions, declaration, parsed, self) ==
  Observed(definitions, declaration, parsed, self, validateParameters(self))

\* _processParsedData on what the tokenizer made of the command line; neither
\* it nor validateParameters is reached when the tokenizer rejects the line
Resolved(definitions, declaration, parsed) ==
  IF parsed.thrown = "none"
  THEN Validated(definitions, declaration, parsed,
                 _processParsedData(declaration.self, parsed.data))
  ELSE Observed(definitions, declaration, parsed, declaration.self,
                [thrown |-> "not called", missing |-> << >>])

\* the tokenizer parses the command line for the switches declared
Parsed(definitions, declaration, supplied) ==
  Resolved(definitions, declaration,
           parseArgs(declaration.self._argumentParser, supplied))

\* a fresh provider declares the definitions, the tokenizer parses the command
\* line, and the provider resolves and validates
Lifecycle(counter, definitions, supplied) ==
  Parsed(definitions, DeclareFrom(NewProvider, counter, definitions, 1), supplied)

\* the definitions of a trial: valid ones of every kind, with and without an
\* explicit key, required or not, with and without a default
TrialDefinitions ==
  UNION { { <<kind, l, k, r, d,
              IF kind = "option" THEN << <<"low", "high">> >> ELSE NoOptions>> :
              l \in LongNames \ {""}, k \in ExplicitKeys \cup {Undefined},
              r \in BOOLEAN, d \in DefaultsOf(kind) } : kind \in Kinds }

\* one or two definitions with different long names and different explicit
\* keys, and a command line that supplies some of them
Trials ==
  LET one == { <<f>> : f \in TrialDefinitions }
      two == { fg \in { <<f, g>> : f \in {t \in TrialDefinitions : t[2] = "--a"},
                                   g \in {t \in TrialDefinitions : t[2] = "--b"} } :
               fg[1][3] = Undefined \/ fg[1][3] # fg[2][3] }
  IN UNION { { [definitions |-> [i \in 1..Len(fs) |-> Definition(fs[i])],
                supplied |-> S, ran |-> FALSE, runs |-> {}] :
               S \in SUBSET {fs[i][2] : i \in 1..Len(fs)} } :
             fs \in one \cup two }

InitOrder ==
  /\ provider = NewProvider
  /\ _keyCounter \in 0..MaxPriorKeys
  /\ outcome = [op |-> "constructor", thrown |-> "none",
                definition |-> NoDefinition, data |-> << >>, missing |-> << >>]
  /\ declared = << >>
  /\ allValid = TRUE
  /\ resolved = FALSE
  /\ generated = [n \in 1.._keyCounter |-> "key_" \o ToString(n - 1)]
  /\ trial \in Trials
  /\ rushPnpm = NotLaunched

\* the lifecycle of the trial, once for every order of its declarations
RunLifecycle ==
  /\ ~trial.ran
  /\ LET n == Len(trial.definitions)
         inOrder(p) == [i \in 1..n |-> trial.definitions[p[i]]]
     IN trial' = [trial EXCEPT
                    !.ran = TRUE,
                    !.runs = { [order |-> [i \in 1..n |-> p[i]]]
                               @@ Lifecycle(_keyCounter, inOrder(p), trial.supplied) :
                               p \in Permutations(1..n) }]
  /\ UNCHANGED <<provider, _keyCounter, outcome, declared, allValid, resolved,
                 generated, rushPnpm>>

NextOrder == RunLifecycle

SpecOrder == InitOrder /\ [][NextOrder]_vars

----------------------------------------------------------------------------
(* RushPnpmCommandLine (libraries/rush-lib/src/cli/RushPnpmCommandLine.ts) *)

RUSH_SKIP_CHECKS_PARAMETER == "--rush-skip-checks"

_knownCommandMap ==
  [c \in {"add", "import", "install", "i", "install-test", "it"} |-> "Blocked"]
  @@ [c \in {"link", "ln", "remove", "rm", "unlink", "update", "up"} |-> "ShowWarning"]
  @@ [c \in {"audit", "exec", "list", "ls", "outdated", "pack", "prune", "publish",
             "rebuild", "rb", "root", "run", "start", "store", "test", "t", "why"}
        |-> "KnownSafe"]

\* arr[i] of JavaScript: the element at the 0-based index, undefined past the end
At(arr, i) == IF i + 1 \in 1..Len(arr) THEN arr[i + 1] ELSE Undefined

\* the i-th character of a string
Char(str, i) == SubSeq(str, i, i)

LowerCase == {"a", "b", "c", "d", "e", "f", "g", "h", "i", "j", "k", "l", "m",
              "n", "o", "p", "q", "r", "s", "t", "u", "v", "w", "x", "y", "z"}

Digit == {"0", "1", "2", "3", "4", "5", "6", "7", "8", "9"}

\* /^[a-z]+([a-z0-9\-])*$/.test(str)
IsCommandVerb(str) ==
  /\ Len(str) >= 1
  /\ Char(str, 1) \in LowerCase
  /\ \A i \in 2..Len(str) : Char(str, i) \in LowerCase \cup Digit \cup {"-"}

\* a _validatePnpmUsage that lets a verb through that the table does not have
_validatePnpmUsage_AllowsUntested(pnpmArgs) ==
  LET firstArg == At(pnpmArgs, 0)
      commandKind == MapGet(_knownCommandMap, firstArg)
      pass(args, messages) == [thrown |-> "none", pnpmArgs |-> args, messages |-> messages]
      fail(messages) == [thrown |-> "AlreadyReportedError", pnpmArgs |-> pnpmArgs,
                         messages |-> messages]
  IN IF At(pnpmArgs, 0) = RUSH_SKIP_CHECKS_PARAMETER THEN pass(Tail(pnpmArgs), << >>)
     ELSE IF Len(pnpmArgs) = 0 THEN pass(pnpmArgs, << >>)
     ELSE IF \/ indexOf(pnpmArgs, "-h") >= 0
             \/ indexOf(pnpmArgs, "--help") >= 0
             \/ indexOf(pnpmArgs, "-?") >= 0
       THEN pass(pnpmArgs, << >>)
     ELSE IF Len(pnpmArgs) = 1 /\ (firstArg = "-v" \/ firstArg = "--version")
       THEN pass(pnpmArgs, << >>)
     ELSE IF ~IsCommandVerb(firstArg)
       THEN fail(<<"expects a command verb", "bypass notice">>)
     ELSE IF At(pnpmArgs, 1) = RUSH_SKIP_CHECKS_PARAMETER
       THEN pass(<<pnpmArgs[1]>> \o SubSeq(pnpmArgs, 3, Len(pnpmArgs)), << >>)
     ELSE IF indexOf(pnpmArgs, RUSH_SKIP_CHECKS_PARAMETER) >= 0
       THEN fail(<<"must be the first parameter">>)
     ELSE IF firstArg \in {"add", "install", "i", "install-test", "it"}
       THEN fail(<<"incompatible", "bypass notice">>)
     ELSE IF commandKind = "KnownSafe" THEN pass(pnpmArgs, << >>)
     ELSE IF commandKind = "ShowWarning"
       THEN pass(pnpmArgs, <<"may invalidate", "consider running">>)
     ELSE IF commandKind = "Blocked"
       THEN fail(<<"known to be incompatible", "bypass notice">>)
     ELSE pass(pnpmArgs, <<"has not been tested">>)

\* _validatePnpmUsage(pnpmArgs, terminal): how it ends, the array as it leaves
\* it, and the lines it writes to the terminal
_validatePnpmUsage(pnpmArgs) ==
  LET firstArg == At(pnpmArgs, 0)
      commandKind == MapGet(_knownCommandMap, firstArg)
      pass(args, messages) == [thrown |-> "none", pnpmArgs |-> args, messages |-> messages]
      fail(messages) == [thrown |-> "AlreadyReportedError", pnpmArgs |-> pnpmArgs,
                         messages |-> messages]
  IN IF At(pnpmArgs, 0) = RUSH_SKIP_CHECKS_PARAMETER THEN pass(Tail(pnpmArgs), << >>)
     ELSE IF Len(pnpmArgs) = 0 THEN pass(pnpmArgs, << >>)
     ELSE IF \/ indexOf(pnpmArgs, "-h") >= 0
             \/ indexOf(pnpmArgs, "--help") >= 0
             \/ indexOf(pnpmArgs, "-?") >= 0
       THEN pass(pnpmArgs, << >>)
     ELSE IF Len(pnpmArgs) = 1 /\ (firstArg = "-v" \/ firstArg = "--version")
       THEN pass(pnpmArgs, << >>)
     ELSE IF ~IsCommandVerb(firstArg)
       THEN fail(<<"expects a command verb", "bypass notice">>)
     ELSE IF At(pnpmArgs, 1) = RUSH_SKIP_CHECKS_PARAMETER
       THEN pass(<<pnpmArgs[1]>> \o SubSeq(pnpmArgs, 3, Len(pnpmArgs)), << >>)
     ELSE IF indexOf(pnpmArgs, RUSH_SKIP_CHECKS_PARAMETER) >= 0
       THEN fail(<<"must be the first parameter">>)
     ELSE IF firstArg \in {"add", "install", "i", "install-test", "it"}
       THEN fail(<<"incompatible", "bypass notice">>)
     ELSE IF commandKind = "KnownSafe" THEN pass(pnpmArgs, << >>)
     ELSE IF commandKind = "ShowWarning"
       THEN pass(pnpmArgs, <<"may invalidate", "consider running">>)
     ELSE IF commandKind = "Blocked"
       THEN fail(<<"known to be incompatible", "bypass notice">>)
     ELSE fail(<<"has not been tested", "bypass notice">>)

\* the words of a command line
Arguments ==
  {RUSH_SKIP_CHECKS_PARAMETER, "-h", "--help", "-?", "-v", "--version",
   "add", "import", "list", "link", "foo", "Foo"}

\* process.argv.slice(2): command lines of up to MaxArgs words
ArgumentLists == UNION { [1..n -> Arguments] : n \in 0..MaxArgs }

\* what RushConfiguration and the file system hold when launch looks
Configurations ==
  [found : BOOLEAN, packageManager : {"pnpm", "npm"}, useWorkspaces : BOOLEAN,
   workspaceFile : BOOLEAN, packageManagerTool : BOOLEAN]

\* pnpmOptions.pnpmStorePath
StorePaths == {Undefined, "/store"}

\* pnpmOptions.environmentVariables: none, or one variable that overrides or not
EnvironmentVariables ==
  {<< >>} \cup { <<[key |-> "K", value |-> "configured", override |-> o]>> : o \in BOOLEAN }

\* process.env: with and without the variable
ProcessEnvironments == {<< >>, [k \in {"K"} |-> "inherited"]}

\* what spawnSync returns: an error or none, and an exit status or null
SpawnResults == [error : {Undefined, "ENOENT"}, status : {Null, 0, 1, 2}]

\* the variables set from pnpmOptions.environmentVariables, from the n-th on
RECURSIVE SetEnvironmentVariables(_, _, _)
SetEnvironmentVariables(environmentMap, variables, n) ==
  IF n > Len(variables) THEN environmentMap
  ELSE LET v == variables[n]
       IN SetEnvironmentVariables(
            IF v.override \/ MapGet(environmentMap, v.key) = Undefined
            THEN MapSet(environmentMap, v.key, v.value) ELSE environmentMap,
            variables, n + 1)

\* the environment map launch builds for PNPM
PnpmEnvironmentMap(processEnv, pnpmStorePath, environmentVariables) ==
  LET map1 == MapSet(processEnv, "NPM_CONFIG_WORKSPACE_DIR", "common/temp")
      map2 == IF Truthy(pnpmStorePath)
              THEN MapSet(map1, "NPM_CONFIG_STORE_DIR", pnpmStorePath) ELSE map1
  IN SetEnvironmentVariables(map2, environmentVariables, 1)

\* launch is called: process.exitCode = 1
Launch ==
  /\ rushPnpm.pc = "not called"
  /\ rushPnpm' = [rushPnpm EXCEPT !.pc = "configuration", !.exitCode = 1]
  /\ UNCHANGED <<provider, _keyCounter, outcome, declared, allValid, resolved,
                 generated, trial>>

\* the checks of the Rush configuration and of the files PNPM needs
CheckConfiguration ==
  /\ rushPnpm.pc = "configuration"
  /\ \E rushConfiguration \in Configurations :
       LET thrown ==
             IF ~rushConfiguration.found THEN "Error"
             ELSE IF rushConfiguration.packageManager # "pnpm" THEN "Error"
             ELSE IF ~rushConfiguration.useWorkspaces THEN "Error"
             ELSE IF ~rushConfiguration.workspaceFile THEN "AlreadyReportedError"
             ELSE IF ~rushConfiguration.packageManagerTool THEN "AlreadyReportedError"
             ELSE "none"
           messages ==
             IF thrown # "AlreadyReportedError" THEN << >>
             ELSE IF ~rushConfiguration.workspaceFile
               THEN <<"workspace file has not been generated", "do you need to run">>
             ELSE <<"local binary has not been installed", "do you need to run">>
       IN rushPnpm' = [rushPnpm EXCEPT
                         !.pc = IF thrown = "none" THEN "arguments" ELSE "catch",
                         !.thrown = thrown,
                         !.messages = @ \o messages]
  /\ UNCHANGED <<provider, _keyCounter, outcome, declared, allValid, resolved,
                 generated, trial>>

\* pnpmArgs = process.argv.slice(2); _validatePnpmUsage(pnpmArgs, terminal)
ValidatePnpmUsage ==
  /\ rushPnpm.pc = "arguments"
  /\ \E argv \in ArgumentLists :
       LET r == _validatePnpmUsage(argv)
       IN rushPnpm' = [rushPnpm EXCEPT
                         !.pc = IF r.thrown = "none" THEN "spawn" ELSE "catch",
                         !.thrown = r.thrown,
                         !.argv = argv,
                         !.pnpmArgs = r.pnpmArgs,
                         !.messages = @ \o r.messages]
  /\ UNCHANGED <<provider, _keyCounter, outcome, declared, allValid, resolved,
                 generated, trial>>

\* a spawn step that propagates the status before it looks at the error
SpawnPnpm_StatusFirst ==
  /\ rushPnpm.pc = "spawn"
  /\ \E processEnv \in ProcessEnvironments, pnpmStorePath \in StorePaths,
        environmentVariables \in EnvironmentVariables, result \in SpawnResults :
       LET thrown == IF Truthy(result.error) THEN "Error"
                     ELSE IF result.status = Null THEN "Error"
                     ELSE "none"
       IN rushPnpm' = [rushPnpm EXCEPT
                         !.pc = IF thrown = "none" THEN "returned" ELSE "catch",
                         !.thrown = thrown,
                         !.spawned = TRUE,
                         !.environmentMap =
                            PnpmEnvironmentMap(processEnv, pnpmStorePath,
                                               environmentVariables),
                         !.result = result,
                         !.exitCode = IF result.status # Null
                                      THEN result.status ELSE @]
  /\ UNCHANGED <<provider, _keyCounter, outcome, declared, allValid, resolved,
                 generated, trial>>

\* the environment map, Executable.spawnSync(tool, pnpmArgs, ...), and the
\* checks of what it returns; process.exitCode = result.status
SpawnPnpm ==
  /\ rushPnpm.pc = "spawn"
  /\ \E processEnv \in ProcessEnvironments, pnpmStorePath \in StorePaths,
        environmentVariables \in EnvironmentVariables, result \in SpawnResults :
       LET thrown == IF Truthy(result.error) THEN "Error"
                     ELSE IF result.status = Null THEN "Error"
                     ELSE "none"
       IN rushPnpm' = [rushPnpm EXCEPT
                         !.pc = IF thrown = "none" THEN "returned" ELSE "catch",
                         !.thrown = thrown,
                         !.spawned = TRUE,
                         !.environmentMap =
                            PnpmEnvironmentMap(processEnv, pnpmStorePath,
                                               environmentVariables),
                         !.result = result,
                         !.exitCode = IF thrown = "none" THEN result.status ELSE @]
  /\ UNCHANGED <<provider, _keyCounter, outcome, declared, allValid, resolved,
                 generated, trial>>

\* catch (error): the message is written unless the error was reported already
CatchError ==
  /\ rushPnpm.pc = "catch"
  /\ rushPnpm' = [rushPnpm EXCEPT
                    !.pc = "returned",
                    !.messages = IF rushPnpm.thrown # "AlreadyReportedError"
                                 THEN Append(@, "ERROR: ") ELSE @]
  /\ UNCHANGED <<provider, _keyCounter, outcome, declared, allValid, resolved,
                 generated, trial>>

InitPnpm ==
  /\ provider = NewProvider
  /\ _keyCounter = 0
  /\ outcome = [op |-> "constructor", thrown |-> "none",
                definition |-> NoDefinition, data |-> << >>, missing |-> << >>]
  /\ declared = << >>
  /\ allValid = TRUE
  /\ resolved = FALSE
  /\ generated = << >>
  /\ trial = NoTrial
  /\ rushPnpm = NotLaunched

NextPnpm ==
  \/ Launch
  \/ CheckConfiguration
  \/ ValidatePnpmUsage
  \/ SpawnPnpm
  \/ CatchError

SpecPnpm == InitPnpm /\ [][NextPnpm]_vars

----------------------------------------------------------------------------
(* Vocabulary of the properties *)

DefineOps == {"defineFlagParameter", "defineStringParameter",
              "defineStringListParameter", "defineIntegerParameter",
              "defineOptionParameter"}

IsDefine(o) == o.op \in DefineOps

\* the declarations that returned normally before the last call
Earlier ==
  IF IsDefine(outcome) /\ outcome.thrown = "none"
  THEN SubSeq(declared, 1, Len(declared) - 1) ELSE declared

\* the handle of the i-th declared definition
HandleOf(i) == provider._parameters[declared[i].parameter]

Range(seq) == {seq[i] : i \in 1..Len(seq)}

----------------------------------------------------------------------------
(* C1 *)

\* C1: whenever a valid declaration carries an explicit key that an earlier
\* declaration with a different long name carried, whatever the kinds of the
\* two, it fails with the duplicate-key error.
C1_SameExplicitKeyFails ==
  (/\ IsDefine(outcome)
   /\ ValidDefinition(outcome.definition)
   /\ outcome.definition.key # Undefined
   /\ \E i \in 1..Len(Earlier) :
        /\ Earlier[i].definition.key = outcome.definition.key
        /\ Earlier[i].definition.parameterLongName
             # outcome.definition.parameterLongName)
  => outcome.thrown = "DuplicateKey"

(* C2 *)

\* C2: a valid declaration that follows only valid declarations, with a long
\* name and an explicit key none of them has, does not fail.
C2_ValidSequenceNeverFails ==
  (IsDefine(outcome) /\ allValid) => outcome.thrown = "none"

(* C3 *)

\* C3: no two handles of the parameter list have the same internal key.
C3_KeysUniqueInParameterList ==
  \A i, j \in 1..Len(provider._parameters) :
    i # j => provider._parameters[i]._key # provider._parameters[j]._key

(* C4 *)

\* the long names of the declared parameters that are required and unset
Offenders ==
  { declared[i].definition.parameterLongName :
      i \in { j \in 1..Len(declared) :
                declared[j].definition.required /\ HandleOf(j).value = Undefined } }

\* C4: after a resolution, validateParameters fails exactly when a declared
\* parameter is required and has no value, and its error names each such
\* parameter once and no other.
C4_ValidateReportsAllMissing ==
  (outcome.op = "validateParameters" /\ resolved) =>
    /\ outcome.thrown = "MissingRequired" <=> Offenders # {}
    /\ Range(outcome.missing) = Offenders
    /\ Len(outcome.missing) = Cardinality(Offenders)

\* after a resolution, validateParameters reports two missing parameters
C4_Witness ==
  /\ outcome.op = "validateParameters"
  /\ resolved
  /\ outcome.thrown = "MissingRequired"
  /\ Len(outcome.missing) = 2

(* C5 *)

\* C5: after _processParsedData, a declared parameter that has a default and
\* no entry in the raw mapping has the default as its value, and
\* validateParameters does not name it.
C5_DefaultFillsAbsentValue ==
  outcome.op = "_processParsedData" =>
    \A i \in 1..Len(declared) :
      (/\ declared[i].definition.defaultValue # Undefined
       /\ HandleOf(i)._key \notin DOMAIN outcome.data)
      => /\ HandleOf(i).value = declared[i].definition.defaultValue
         /\ declared[i].definition.parameterLongName
              \notin Range(validateParameters(provider).missing)

\* a required parameter with a default and no raw entry was resolved
C5_Witness ==
  /\ outcome.op = "_processParsedData"
  /\ \E i \in 1..Len(declared) :
       /\ declared[i].definition.required
       /\ declared[i].definition.defaultValue # Undefined
       /\ HandleOf(i)._key \notin DOMAIN outcome.data
       /\ HandleOf(i).value = declared[i].definition.defaultValue

(* C6 *)

\* C6: after _processParsedData, every handle whose key has an entry in the
\* raw mapping has that entry as its value, whatever its default is.
C6_DefaultNeverReplacesValue ==
  outcome.op = "_processParsedData" =>
    \A i \in 1..Len(provider._parameters) :
      provider._parameters[i]._key \in DOMAIN outcome.data
        => provider._parameters[i].value
             = outcome.data[provider._parameters[i]._key]

\* a parameter with a default was resolved to a raw value other than the default
C6_Witness ==
  /\ outcome.op = "_processParsedData"
  /\ \E i \in 1..Len(declared) :
       /\ declared[i].definition.defaultValue # Undefined
       /\ HandleOf(i)._key \in DOMAIN outcome.data
       /\ HandleOf(i).value = outcome.data[HandleOf(i)._key]
       /\ HandleOf(i).value # declared[i].definition.defaultValue

(* C7 *)

\* C7: a declaration that fails with the invalid-definition or the
\* duplicate-key error leaves the key registry, the parameter list, the
\* metadata map, the switches of the tokenizer and the declared parameters
\* as they were.
C7_FailedDeclarationChangesNothing ==
  [][(IsDefine(outcome') /\ outcome'.thrown \in {"InvalidDefinition", "DuplicateKey"})
       => (provider' = provider /\ declared' = declared)]_vars

\* a declaration failed with the duplicate-key error on a provider that has
\* a declared parameter
C7_Witness ==
  /\ IsDefine(outcome)
  /\ outcome.thrown = "DuplicateKey"
  /\ Len(declared) > 0

(* C8 *)

\* C8: defineOptionParameter fails with the invalid-definition error for every
\* definition that supplies a defaultValue that is not one of its options.
C8_DefaultOutsideOptionsFails ==
  (/\ outcome.op = "defineOptionParameter"
   /\ outcome.definition.defaultValue # Undefined
   /\ "options" \in DOMAIN outcome.definition
        => indexOf(outcome.definition.options, outcome.definition.defaultValue) = -1)
  => outcome.thrown = "InvalidDefinition"

(* C9 *)

\* C9: defineOptionParameter fails with the invalid-definition error whenever
\* the definition has no options or an empty list of options.
C9_MissingOrEmptyOptionsFails ==
  (/\ outcome.op = "defineOptionParameter"
   /\ "options" \notin DOMAIN outcome.definition
        \/ Len(outcome.definition.options) = 0)
  => outcome.thrown = "InvalidDefinition"

(* C10 *)

\* C10 as stated: once _processParsedData has run, no operation changes the
\* value of a handle.
C10_ResolvedValueNeverChanges ==
  [][resolved
       => \A i \in 1..Len(provider._parameters) :
            provider'._parameters[i].value = provider._parameters[i].value]_vars

\* C10 amended: once _processParsedData has run, validateParameters and the
\* declarations change the value of no handle.
C10_OnlyResolutionAssignsValues ==
  [][(resolved /\ outcome'.op # "_processParsedData")
       => \A i \in 1..Len(provider._parameters) :
            provider'._parameters[i].value = provider._parameters[i].value]_vars

\* a declaration returned normally on a provider that has a resolved value
C10_Witness ==
  /\ resolved
  /\ IsDefine(outcome)
  /\ outcome.thrown = "none"
  /\ \E i \in 1..(Len(provider._parameters) - 1) :
       provider._parameters[i].value # Undefined

(* C13 *)

\* C13: the state _processParsedData leaves is a fixed point of the default
\* fill: running the default fill again changes the value of no parameter.
C13_DefaultFillIdempotent ==
  outcome.op = "_processParsedData" => DefaultFill(provider) = provider

\* a resolution gave a parameter its default
C13_Witness ==
  /\ outcome.op = "_processParsedData"
  /\ \E i \in 1..Len(declared) :
       /\ declared[i].definition.defaultValue # Undefined
       /\ HandleOf(i)._key \notin DOMAIN outcome.data
       /\ HandleOf(i).value = declared[i].definition.defaultValue

(* C15 *)

\* C15: _processParsedData and validateParameters leave the metadata map, the
\* key registry and the handles of the parameter list with their keys as they
\* were; validateParameters leaves the values as they were too.
C15_ResolutionReadsMetadataOnly ==
  [][outcome'.op \in {"_processParsedData", "validateParameters"}
       => /\ provider'._parameterMetadata = provider._parameterMetadata
          /\ provider'._keys = provider._keys
          /\ Len(provider'._parameters) = Len(provider._parameters)
          /\ \A i \in 1..Len(provider._parameters) :
               provider'._parameters[i]._key = provider._parameters[i]._key
          /\ outcome'.op = "validateParameters"
               => provider'._parameters = provider._parameters]_vars

\* a resolution assigned a value on a provider with two metadata entries
C15_Witness ==
  /\ outcome.op = "_processParsedData"
  /\ Len(provider._parameterMetadata) = 2
  /\ \E i \in 1..Len(provider._parameters) : provider._parameters[i].value # Undefined

(* C16 *)

\* C16: while every handle of the parameter list belongs to a declaration
\* that returned normally, the parameter list, the key registry and the
\* metadata map have the same number of entries; every declared long name has
\* a metadata entry; and every metadata entry refers to a handle of the list
\* whose key the registry maps to the long name of the entry.
C16_RegistriesAgree ==
  Len(declared) = Len(provider._parameters) =>
    /\ Len(provider._parameterMetadata) = Len(provider._parameters)
    /\ Cardinality(DOMAIN provider._keys) = Len(provider._parameters)
    /\ \A i \in 1..Len(declared) :
         \E n \in 1..Len(provider._parameterMetadata) :
           provider._parameterMetadata[n].longName
             = declared[i].definition.parameterLongName
    /\ \A n \in 1..Len(provider._parameterMetadata) :
         LET entry == provider._parameterMetadata[n]
         IN /\ entry.parameter \in 1..Len(provider._parameters)
            /\ MapGet(provider._keys, provider._parameters[entry.parameter]._key)
                 = entry.longName

\* two declarations returned normally and no other handle was pushed
C16_Witness ==
  /\ Len(declared) = 2
  /\ Len(provider._parameters) = 2

(* C17 *)

\* the long names of the declared parameters that are required
RequiredNames ==
  { declared[i].definition.parameterLongName :
      i \in { j \in 1..Len(declared) : declared[j].definition.required } }

\* C17: before any resolution, validateParameters names every declared
\* parameter that is required, with or without a default, and no other, and
\* fails exactly when there is one.
C17_ValidateBeforeResolution ==
  (outcome.op = "validateParameters" /\ ~resolved) =>
    /\ Range(outcome.missing) = RequiredNames
    /\ outcome.thrown = "MissingRequired" <=> RequiredNames # {}

\* before any resolution, validateParameters named a required parameter that
\* has a default
C17_Witness ==
  /\ outcome.op = "validateParameters"
  /\ ~resolved
  /\ outcome.thrown = "MissingRequired"
  /\ \E i \in 1..Len(declared) :
       /\ declared[i].definition.required
       /\ declared[i].definition.defaultValue # Undefined
       /\ declared[i].definition.parameterLongName \in Range(outcome.missing)

(* C14 *)

\* C14: no key is in the history of generated keys twice, whichever provider
\* instance asked for it and however the declaration ended, and the static
\* counter never decreases.
C14_GeneratedKeysDistinct ==
  /\ [](\A i, j \in 1..Len(generated) : i # j => generated[i] # generated[j])
  /\ [][_keyCounter' >= _keyCounter]_vars

\* a declaration that failed in the tokenizer was given a generated key, a
\* later declaration was given another one, and another instance generated a key
C14_Witness ==
  /\ Len(provider._parameters) = 2
  /\ Len(provider._parameterMetadata) = 1
  /\ provider._parameterMetadata[1].parameter = 2
  /\ \A i \in 1..2 : provider._parameters[i]._key \in Range(generated)
  /\ Len(generated) >= 3

(* C11 *)

\* C11: the lifecycle of a set of valid definitions and a command line gives,
\* in every order of the declarations, the same value for each long name and
\* the same outcome of validateParameters with the same set of missing names.
C11_OrderDoesNotMatter ==
  trial.ran =>
    \A r1, r2 \in trial.runs :
      /\ r1.values = r2.values
      /\ r1.thrown = r2.thrown
      /\ r1.missing = r2.missing

(* C12 *)

\* the trial is scenario A: a flag that is not required and a required string
\* without a default, by their positions in the trial's definitions
ScenarioA(f, s) ==
  /\ Len(trial.definitions) = 2
  /\ {f, s} = {1, 2}
  /\ trial.definitions[f].kind = "flag"
  /\ ~trial.definitions[f].required
  /\ trial.definitions[s].kind = "string"
  /\ trial.definitions[s].required
  /\ trial.definitions[s].defaultValue = Undefined

\* C12: on a provider that has declared a flag that is not required and a
\* required string without a default, in either order: when the command line
\* omits the string, validateParameters fails and names the string, with and
\* without the flag; when it supplies the string, validateParameters
\* succeeds, the string has the text supplied, and the flag is true if it was
\* supplied and false if not.
C12_ScenarioA ==
  trial.ran =>
    \A f, s \in 1..Len(trial.definitions) : ScenarioA(f, s) =>
      LET flag   == trial.definitions[f].parameterLongName
          string == trial.definitions[s].parameterLongName
      IN \A run \in trial.runs : run.declared = {flag, string} =>
           /\ run.parsed = "none"
           /\ string \notin trial.supplied =>
                /\ run.thrown = "MissingRequired"
                /\ run.missing = {string}
           /\ string \in trial.supplied =>
                /\ run.thrown = "none"
                /\ run.values[string] = "Alice"
                /\ run.values[flag] = IF flag \in trial.supplied THEN "true" ELSE "false"

\* scenario A ran with the string supplied and the flag omitted, and with
\* both declarations returning normally in both orders
C12_Witness ==
  /\ trial.ran
  /\ \E f, s \in 1..Len(trial.definitions) :
       /\ ScenarioA(f, s)
       /\ trial.supplied = {trial.definitions[s].parameterLongName}
       /\ Cardinality(trial.runs) = 2
       /\ \A run \in trial.runs :
            /\ Cardinality(run.declared) = 2
            /\ run.values[trial.definitions[f].parameterLongName] = "false"

(* C18 *)

\* C18: once launch has been called the exit code is 1, or PNPM was spawned
\* and returned without an error and with a status, and the exit code is that
\* status; it is 1 in every run that threw, and 0 only when PNPM exited with 0.
C18_ExitCodeOnlyFromPnpm ==
  rushPnpm.pc # "not called" =>
    /\ \/ rushPnpm.exitCode = 1
       \/ /\ rushPnpm.spawned
          /\ ~Truthy(rushPnpm.result.error)
          /\ rushPnpm.result.status # Null
          /\ rushPnpm.exitCode = rushPnpm.result.status
    /\ rushPnpm.thrown # "none" => rushPnpm.exitCode = 1
    /\ rushPnpm.exitCode = 0 =>
         rushPnpm.spawned /\ rushPnpm.thrown = "none" /\ rushPnpm.result.status = 0

\* launch returned with the exit code 0 of PNPM
C18_Witness ==
  /\ rushPnpm.pc = "returned"
  /\ rushPnpm.spawned
  /\ rushPnpm.exitCode = 0

(* C19 *)

\* the command line is one that _validatePnpmUsage classifies by its verb
ClassifiedByVerb(argv) ==
  /\ Len(argv) > 0
  /\ At(argv, 0) # RUSH_SKIP_CHECKS_PARAMETER
  /\ At(argv, 1) # RUSH_SKIP_CHECKS_PARAMETER
  /\ \A i \in 1..Len(argv) : argv[i] \notin {"-h", "--help", "-?"}
  /\ ~(Len(argv) = 1 /\ argv[1] \in {"-v", "--version"})

\* the first word is a command verb that the table has as KnownSafe or ShowWarning
AllowedVerb(argv) ==
  /\ IsCommandVerb(argv[1])
  /\ argv[1] \in DOMAIN _knownCommandMap
  /\ _knownCommandMap[argv[1]] \in {"KnownSafe", "ShowWarning"}

\* C19: for a command line that is classified by its verb, PNPM is spawned
\* only if the first word is an allowed verb; for any other first word
\* _validatePnpmUsage throws and PNPM is not spawned.
C19_OnlyAllowedVerbsSpawn ==
  (rushPnpm.pc \in {"spawn", "catch", "returned"} /\ ClassifiedByVerb(rushPnpm.argv)) =>
    /\ rushPnpm.spawned => AllowedVerb(rushPnpm.argv)
    /\ ~AllowedVerb(rushPnpm.argv) =>
         /\ rushPnpm.thrown = "AlreadyReportedError"
         /\ ~rushPnpm.spawned

\* launch returned after a command line whose first word is a verb that the
\* table does not have was rejected
C19_Witness ==
  /\ rushPnpm.pc = "returned"
  /\ ClassifiedByVerb(rushPnpm.argv)
  /\ rushPnpm.argv = <<"foo", "list">>
  /\ rushPnpm.thrown = "AlreadyReportedError"
  /\ ~rushPnpm.spawned

(* C20 *)

\* C20: the argument list PNPM is spawned with does not contain
\* --rush-skip-checks.
C20_SkipChecksNeverReachesPnpm ==
  rushPnpm.spawned => indexOf(rushPnpm.pnpmArgs, RUSH_SKIP_CHECKS_PARAMETER) = -1

====
